---- MODULE Spec2Model ----
(***************************************************************************)
(* Model of WebCore::Layout::FormattingContext                             *)
(* (Source/WebCore/layout/FormattingContext.cpp): out-of-flow geometry     *)
(* resolution, the out-of-flow traversal, in-flow positioned placement,    *)
(* the coordinate mapper and the post-layout validator.                    *)
(*                                                                         *)
(* Lengths are LayoutUnit raw values, modelled as integers.  The Geometry  *)
(* solver, the box tree queries and the LayoutContext store are            *)
(* collaborators whose code is outside FormattingContext.cpp.              *)
(***************************************************************************)
EXTENDS Integers, Sequences, FiniteSets, TLC

\* ------------------------------------------------------------------ bounds

\* Boxes besides the initial containing block (box 0).
NumBoxes == 3

\* Largest length a style or an already resolved box may carry.
MaxLength == 2

\* ------------------------------------------------------------- basic values

Boxes == 0..NumBoxes

\* A null Box* / Container*.
NoBox == -1

\* The 'auto' value of a Length.
Auto == -1

\* An empty std::optional<LayoutUnit>.
Nullopt == -1

Lengths == 0..MaxLength

Positions == {"static", "relative", "absolute", "fixed"}

\* ------------------------------------------------------------------- state

VARIABLES
    tree,                  \* the box tree: parent, position, isContainer, replaced, formattingRoot
    outOfFlowDescendants,  \* Container::outOfFlowDescendants(), insertion ordered, per box
    displayBox,            \* LayoutContext's Box -> Display::Box store
    formattingStates,      \* boxes for which LayoutContext holds a FormattingState
    phase,                 \* "idle", "running", "done": where the pass is
    stack,                 \* activation records of layoutOutOfFlowDescendants
    trace,                 \* the first call of layoutOutOfFlowDescendants, then the calls it made
    style,                 \* per box: computed style, intrinsic sizes, static position
    root,                  \* FormattingContext::m_root
    placed,                \* containers placeInFlowPositionedChildren already ran on
    offsetsApplied,        \* per box, how often computeInFlowPositionedPosition ran on it
    mapped,                \* the latest coordinate mapper call and what it returned
    validated              \* outcome of validateGeometryConstraintsAfterLayout

vars == <<tree, outOfFlowDescendants, displayBox, formattingStates, phase, stack, trace,
          style, root, placed, offsetsApplied, mapped, validated>>

\* ------------------------------------------------------------ tree queries

\* Box::isInitialContainingBlock(): the box without a parent.
isInitialContainingBlock(b) == tree.parent[b] = NoBox

\* Box::isPositioned(): any positioning scheme other than static.
isPositioned(b) == tree.position[b] # "static"

\* Box::isInFlowPositioned(): relatively positioned.
isInFlowPositioned(b) == tree.position[b] = "relative"

\* Box::isOutOfFlowPositioned(): absolutely or fixed positioned.
isOutOfFlowPositioned(b) == tree.position[b] \in {"absolute", "fixed"}

\* is<Container>(box)
isContainer(b) == tree.isContainer[b]

\* Container::hasChild()
hasChild(b) == \E c \in Boxes : tree.parent[c] = b

\* childrenOfType<Box>(container), in tree order.
RECURSIVE childrenFrom(_, _)
childrenFrom(container, b) ==
    IF b > NumBoxes THEN <<>>
    ELSE IF tree.parent[b] = container THEN <<b>> \o childrenFrom(container, b + 1)
    ELSE childrenFrom(container, b + 1)

childrenOf(container) == childrenFrom(container, 0)

\* Box::isBlockLevelBox()
isBlockLevelBox(b) == tree.blockLevel[b]

\* Box::replaced()
replaced(b) == tree.replaced[b]

\* Box::establishesFormattingContext(): the initial containing block and every
\* out-of-flow box do; an in-flow box does when its style says so.
establishesFormattingContext(b) ==
    isInitialContainingBlock(b) \/ isOutOfFlowPositioned(b) \/ tree.formattingRoot[b]

\* The containing block of a box, given the parent and position functions:
\* for an absolutely positioned box the nearest positioned ancestor, else the
\* initial containing block; for a fixed box the initial containing block; for an
\* in-flow box its parent.
RECURSIVE nearestPositionedAncestor(_, _, _)
nearestPositionedAncestor(par, pos, b) ==
    IF par[b] = NoBox THEN b
    ELSE IF pos[b] # "static" THEN b
    ELSE nearestPositionedAncestor(par, pos, par[b])

containingBlockIn(par, pos, b) ==
    IF par[b] = NoBox THEN NoBox
    ELSE IF pos[b] = "absolute" THEN nearestPositionedAncestor(par, pos, par[b])
    ELSE IF pos[b] = "fixed" THEN 0
    ELSE par[b]

\* Box::containingBlock()
containingBlock(b) == containingBlockIn(tree.parent, tree.position, b)

\* Box::isDescendantOf(container)
RECURSIVE isDescendantOf(_, _)
isDescendantOf(b, ancestor) ==
    IF tree.parent[b] = NoBox THEN FALSE
    ELSE IF tree.parent[b] = ancestor THEN TRUE
    ELSE isDescendantOf(tree.parent[b], ancestor)

\* Box::formattingContextRoot(): the nearest containing block that establishes a
\* formatting context.
RECURSIVE formattingContextRootFrom(_)
formattingContextRootFrom(b) ==
    IF containingBlock(b) = NoBox THEN b
    ELSE IF establishesFormattingContext(containingBlock(b)) THEN containingBlock(b)
    ELSE formattingContextRootFrom(containingBlock(b))

formattingContextRoot(b) == formattingContextRootFrom(b)

\* ------------------------------------------------- Geometry (collaborator)

\* Geometry::computedValueIfNotAuto(length, containingBlockWidth): the empty
\* optional for 'auto', the length otherwise (fixed lengths only).
computedValueIfNotAuto(length, containingBlockWidth) ==
    IF length = Auto THEN Nullopt ELSE length

\* Geometry::computedMaxHeight(layoutContext, layoutBox)
computedMaxHeight(s) == IF s.maxHeight = Auto THEN Nullopt ELSE s.maxHeight

\* Geometry::computedMinHeight(layoutContext, layoutBox)
computedMinHeight(s) == IF s.minHeight = Auto THEN Nullopt ELSE s.minHeight

\* Padding not resolved: every side an empty optional.
NoPadding == [left |-> Nullopt, right |-> Nullopt, top |-> Nullopt, bottom |-> Nullopt]

\* Display::Box::paddingLeft().value_or(0) and friends.
paddingOr0(db, side) == IF db.padding[side] = Nullopt THEN 0 ELSE db.padding[side]

horizontalBorderAndPadding(db) ==
    db.border.left + paddingOr0(db, "left") + paddingOr0(db, "right") + db.border.right

verticalBorderAndPadding(db) ==
    db.border.top + paddingOr0(db, "top") + paddingOr0(db, "bottom") + db.border.bottom

HorizontalGeometry(l, r, w, ml, mr, ncl, ncr) ==
    [left |-> l, right |-> r,
     widthAndMargin |-> [width |-> w,
                         margin |-> [left |-> ml, right |-> mr],
                         nonComputedMargin |-> [left |-> ncl, right |-> ncr]]]

VerticalGeometry(t, b, h, mt, mb) ==
    [top |-> t, bottom |-> b,
     heightAndMargin |-> [height |-> h,
                          margin |-> [top |-> mt, bottom |-> mb],
                          collapsedMargin |-> Nullopt]]

\* Geometry::outOfFlowHorizontalGeometry: CSS 2.1 10.3.7 (non-replaced) and 10.3.8
\* (replaced: the width is the used one or the intrinsic one, never 'auto'), for a
\* left-to-right containing block.  s carries the box's computed style, its
\* shrink-to-fit width and its static position; db its border and padding.
outOfFlowHorizontalGeometry(isReplaced, s, db, cbw, usedWidth) ==
    LET width == IF usedWidth # Nullopt THEN usedWidth
                 ELSE IF isReplaced THEN s.intrinsicWidth
                 ELSE s.width
        bp == horizontalBorderAndPadding(db)
        ncl == IF s.marginLeft = Auto THEN 0 ELSE s.marginLeft
        ncr == IF s.marginRight = Auto THEN 0 ELSE s.marginRight
        stf == s.intrinsicWidth
    IN  IF s.left = Auto /\ width = Auto /\ s.right = Auto THEN
            \* all three 'auto': left is the static position, width shrinks to fit
            HorizontalGeometry(s.staticLeft, cbw - (s.staticLeft + ncl + bp + stf + ncr),
                               stf, ncl, ncr, ncl, ncr)
        ELSE IF s.left # Auto /\ width # Auto /\ s.right # Auto THEN
            LET rest == cbw - (s.left + bp + width + s.right)
            IN  IF s.marginLeft = Auto /\ s.marginRight = Auto THEN
                    IF rest >= 0
                    THEN HorizontalGeometry(s.left, s.right, width, rest \div 2, rest \div 2, ncl, ncr)
                    ELSE HorizontalGeometry(s.left, s.right, width, 0, rest, ncl, ncr)
                ELSE IF s.marginLeft = Auto THEN
                    HorizontalGeometry(s.left, s.right, width, rest - ncr, ncr, ncl, ncr)
                ELSE IF s.marginRight = Auto THEN
                    HorizontalGeometry(s.left, s.right, width, ncl, rest - ncl, ncl, ncr)
                ELSE
                    \* over-constrained: 'right' is ignored
                    HorizontalGeometry(s.left, cbw - (s.left + ncl + bp + width + ncr),
                                       width, ncl, ncr, ncl, ncr)
        ELSE IF s.left = Auto /\ width = Auto THEN
            HorizontalGeometry(cbw - (ncl + bp + stf + ncr + s.right), s.right, stf, ncl, ncr, ncl, ncr)
        ELSE IF s.left = Auto /\ s.right = Auto THEN
            HorizontalGeometry(s.staticLeft, cbw - (s.staticLeft + ncl + bp + width + ncr),
                               width, ncl, ncr, ncl, ncr)
        ELSE IF width = Auto /\ s.right = Auto THEN
            HorizontalGeometry(s.left, cbw - (s.left + ncl + bp + stf + ncr), stf, ncl, ncr, ncl, ncr)
        ELSE IF s.left = Auto THEN
            HorizontalGeometry(cbw - (ncl + bp + width + ncr + s.right), s.right, width, ncl, ncr, ncl, ncr)
        ELSE IF width = Auto THEN
            HorizontalGeometry(s.left, s.right, cbw - (s.left + ncl + bp + ncr + s.right), ncl, ncr, ncl, ncr)
        ELSE
            HorizontalGeometry(s.left, cbw - (s.left + ncl + bp + width + ncr), width, ncl, ncr, ncl, ncr)

\* Geometry::outOfFlowVerticalGeometry: CSS 2.1 10.6.4 (non-replaced) and 10.6.5
\* (replaced).  contentHeight is the height of the content the box's own
\* formatting context laid out.
outOfFlowVerticalGeometry(isReplaced, s, db, cbh, contentHeight, usedHeight) ==
    LET height == IF usedHeight # Nullopt THEN usedHeight
                  ELSE IF isReplaced THEN s.intrinsicHeight
                  ELSE s.height
        bp == verticalBorderAndPadding(db)
        mt == IF s.marginTop = Auto THEN 0 ELSE s.marginTop
        mb == IF s.marginBottom = Auto THEN 0 ELSE s.marginBottom
    IN  IF s.top = Auto /\ height = Auto /\ s.bottom = Auto THEN
            VerticalGeometry(s.staticTop, cbh - (s.staticTop + mt + bp + contentHeight + mb),
                             contentHeight, mt, mb)
        ELSE IF s.top # Auto /\ height # Auto /\ s.bottom # Auto THEN
            LET rest == cbh - (s.top + bp + height + s.bottom)
            IN  IF s.marginTop = Auto /\ s.marginBottom = Auto THEN
                    VerticalGeometry(s.top, s.bottom, height, rest \div 2, rest \div 2)
                ELSE IF s.marginTop = Auto THEN
                    VerticalGeometry(s.top, s.bottom, height, rest - mb, mb)
                ELSE IF s.marginBottom = Auto THEN
                    VerticalGeometry(s.top, s.bottom, height, mt, rest - mt)
                ELSE
                    VerticalGeometry(s.top, cbh - (s.top + mt + bp + height + mb), height, mt, mb)
        ELSE IF s.top = Auto /\ height = Auto THEN
            VerticalGeometry(cbh - (mt + bp + contentHeight + mb + s.bottom), s.bottom,
                             contentHeight, mt, mb)
        ELSE IF s.top = Auto /\ s.bottom = Auto THEN
            VerticalGeometry(s.staticTop, cbh - (s.staticTop + mt + bp + height + mb), height, mt, mb)
        ELSE IF height = Auto /\ s.bottom = Auto THEN
            VerticalGeometry(s.top, cbh - (s.top + mt + bp + contentHeight + mb), contentHeight, mt, mb)
        ELSE IF s.top = Auto THEN
            VerticalGeometry(cbh - (mt + bp + height + mb + s.bottom), s.bottom, height, mt, mb)
        ELSE IF height = Auto THEN
            VerticalGeometry(s.top, s.bottom, cbh - (s.top + mt + bp + mb + s.bottom), mt, mb)
        ELSE
            VerticalGeometry(s.top, cbh - (s.top + mt + bp + height + mb), height, mt, mb)

\* ------------------------------------------- FormattingContext: geometry

\* Mutant: the min-width solution is tried before the max-width one.
selectedHorizontalGeometryMinFirst(isReplaced, s, db, containingBlockWidth) ==
    LET compute(usedWidth) ==
            outOfFlowHorizontalGeometry(isReplaced, s, db, containingBlockWidth, usedWidth)
        horizontalGeometry == compute(Nullopt)
        minWidth == computedValueIfNotAuto(s.minWidth, containingBlockWidth)
        afterMin ==
            IF minWidth # Nullopt
               /\ horizontalGeometry.widthAndMargin.width < compute(minWidth).widthAndMargin.width
            THEN compute(minWidth)
            ELSE horizontalGeometry
        maxWidth == computedValueIfNotAuto(s.maxWidth, containingBlockWidth)
    IN  IF maxWidth # Nullopt
           /\ afterMin.widthAndMargin.width > compute(maxWidth).widthAndMargin.width
        THEN compute(maxWidth)
        ELSE afterMin

\* computeOutOfFlowHorizontalGeometry, the solution it selects: the unconstrained
\* one, replaced by the max-width one when wider than it, then by the min-width one
\* when narrower than it.
selectedHorizontalGeometry(isReplaced, s, db, containingBlockWidth) ==
    LET compute(usedWidth) ==
            outOfFlowHorizontalGeometry(isReplaced, s, db, containingBlockWidth, usedWidth)
        horizontalGeometry == compute(Nullopt)
        maxWidth == computedValueIfNotAuto(s.maxWidth, containingBlockWidth)
        afterMax ==
            IF maxWidth # Nullopt
               /\ horizontalGeometry.widthAndMargin.width > compute(maxWidth).widthAndMargin.width
            THEN compute(maxWidth)
            ELSE horizontalGeometry
        minWidth == computedValueIfNotAuto(s.minWidth, containingBlockWidth)
    IN  IF minWidth # Nullopt
           /\ afterMax.widthAndMargin.width < compute(minWidth).widthAndMargin.width
        THEN compute(minWidth)
        ELSE afterMax

\* Mutant: the left margin is left out of the left offset.
setHorizontalGeometryWithoutMargin(db, horizontalGeometry) ==
    [db EXCEPT
        !.left = horizontalGeometry.left,
        !.contentBoxWidth = horizontalGeometry.widthAndMargin.width,
        !.horizontalMargin = horizontalGeometry.widthAndMargin.margin,
        !.horizontalNonComputedMargin = horizontalGeometry.widthAndMargin.nonComputedMargin,
        !.valid = @ \cup {"left", "contentBoxWidth", "horizontalMargin"}]

\* computeOutOfFlowHorizontalGeometry, what it writes to the box's Display::Box.
setHorizontalGeometry(db, horizontalGeometry) ==
    [db EXCEPT
        !.left = horizontalGeometry.left + horizontalGeometry.widthAndMargin.margin.left,
        !.contentBoxWidth = horizontalGeometry.widthAndMargin.width,
        !.horizontalMargin = horizontalGeometry.widthAndMargin.margin,
        !.horizontalNonComputedMargin = horizontalGeometry.widthAndMargin.nonComputedMargin,
        !.valid = @ \cup {"left", "contentBoxWidth", "horizontalMargin"}]

\* computeOutOfFlowVerticalGeometry, the solution it selects.
selectedVerticalGeometry(isReplaced, s, db, containingBlockHeight, contentHeight) ==
    LET compute(usedHeight) ==
            outOfFlowVerticalGeometry(isReplaced, s, db, containingBlockHeight,
                                      contentHeight, usedHeight)
        verticalGeometry == compute(Nullopt)
        maxHeight == computedMaxHeight(s)
        afterMax ==
            IF maxHeight # Nullopt
               /\ verticalGeometry.heightAndMargin.height > compute(maxHeight).heightAndMargin.height
            THEN compute(maxHeight)
            ELSE verticalGeometry
        minHeight == computedMinHeight(s)
    IN  IF minHeight # Nullopt
           /\ afterMax.heightAndMargin.height < compute(minHeight).heightAndMargin.height
        THEN compute(minHeight)
        ELSE afterMax

\* computeOutOfFlowVerticalGeometry, what it writes to the box's Display::Box.
setVerticalGeometry(db, verticalGeometry) ==
    [db EXCEPT
        !.top = verticalGeometry.top + verticalGeometry.heightAndMargin.margin.top,
        !.contentBoxHeight = verticalGeometry.heightAndMargin.height,
        !.verticalMargin = verticalGeometry.heightAndMargin.margin,
        !.verticalNonCollapsedMargin = verticalGeometry.heightAndMargin.margin,
        !.valid = @ \cup {"top", "contentBoxHeight", "verticalMargin"}]

\* computeBorderAndPadding, what it writes: Geometry::computedBorder and
\* Geometry::computedPadding hand on the style's values.
setBorderAndPadding(db, s) ==
    [db EXCEPT !.border = s.border, !.padding = s.padding,
               !.valid = @ \cup {"border", "padding"}]

\* ----------------------------------- FormattingContext: out-of-flow traversal

\* The statements of the loop body of layoutOutOfFlowDescendants, in program order.
LoopBody ==
    <<"formattingContext", "computeBorderAndPadding", "computeOutOfFlowHorizontalGeometry",
      "createFormattingStateForFormattingRootIfNeeded", "layout",
      "computeOutOfFlowVerticalGeometry", "layoutOutOfFlowDescendants">>

\* Mutant: the vertical geometry is resolved where the horizontal one should be,
\* and the other way round.
nextStatementVerticalFirst(pc) ==
    LET order == <<"formattingContext", "computeBorderAndPadding",
                   "computeOutOfFlowVerticalGeometry",
                   "createFormattingStateForFormattingRootIfNeeded", "layout",
                   "computeOutOfFlowHorizontalGeometry", "layoutOutOfFlowDescendants">>
        i == CHOOSE k \in 1..Len(order) : order[k] = pc
    IN  IF i = Len(order) THEN "endOfBody" ELSE order[i + 1]

\* Mutant: the recursive call is made first, before the geometry of the box it
\* recurses into is resolved.
nextStatementRecurseFirst(pc) ==
    LET order == <<"formattingContext", "layoutOutOfFlowDescendants",
                   "computeBorderAndPadding", "computeOutOfFlowHorizontalGeometry",
                   "createFormattingStateForFormattingRootIfNeeded", "layout",
                   "computeOutOfFlowVerticalGeometry">>
        i == CHOOSE k \in 1..Len(order) : order[k] = pc
    IN  IF i = Len(order) THEN "endOfBody" ELSE order[i + 1]

\* The statement that follows statement pc in the loop body; after the last one
\* the body is over.
nextStatement(pc) ==
    LET i == CHOOSE k \in 1..Len(LoopBody) : LoopBody[k] = pc
    IN  IF i = Len(LoopBody) THEN "endOfBody" ELSE LoopBody[i + 1]

\* The early returns of layoutOutOfFlowDescendants.
returnsEarly(layoutBox) ==
    \/ ~isPositioned(layoutBox) /\ ~isInitialContainingBlock(layoutBox)
    \/ ~isContainer(layoutBox)
    \/ ~hasChild(layoutBox)

\* Mutant: the out-of-flow descendants are walked from the last to the first.
outOfFlowBoxAtReversed(container, index) ==
    outOfFlowDescendants[container][Len(outOfFlowDescendants[container]) + 1 - index]

\* The box the range-for over container.outOfFlowDescendants() is at.
outOfFlowBoxAt(container, index) == outOfFlowDescendants[container][index]

\* The activation record of a call that reached the loop.
enterLoop(container) ==
    [container |-> container, index |-> 1,
     pc |-> IF Len(outOfFlowDescendants[container]) = 0 THEN "return" ELSE LoopBody[1]]

\* Mutant: the loop skips every second out-of-flow box.
advanceByTwo(frame) ==
    [frame EXCEPT !.index = frame.index + 2,
                  !.pc = IF frame.index + 2 > Len(outOfFlowDescendants[frame.container])
                         THEN "return" ELSE LoopBody[1]]

\* The range-for moves on to the next out-of-flow box, or the loop ends.
advance(frame) ==
    [frame EXCEPT !.index = frame.index + 1,
                  !.pc = IF frame.index + 1 > Len(outOfFlowDescendants[frame.container])
                         THEN "return" ELSE LoopBody[1]]

Top == stack[Len(stack)]

currentBox == outOfFlowBoxAt(Top.container, Top.index)

atStatement(pc) == phase = "running" /\ Top.pc = pc

\* The activation record once control has moved to statement pc of the loop body,
\* or to the next iteration when the body is over.
resumedAt(frame, pc) ==
    IF pc = "endOfBody" THEN advance(frame) ELSE [frame EXCEPT !.pc = pc]

stepTo(pc) == stack' = [stack EXCEPT ![Len(stack)] = resumedAt(@, pc)]

logged(statement, box) == trace' = Append(trace, <<statement, box>>)

\* The first call of layoutOutOfFlowDescendants of the pass.
LayoutOutOfFlowDescendants(layoutBox) ==
    /\ phase = "idle"
    /\ IF returnsEarly(layoutBox)
       THEN phase' = "done" /\ stack' = <<>>
       ELSE phase' = "running" /\ stack' = <<enterLoop(layoutBox)>>
    /\ logged("layoutOutOfFlowDescendants", layoutBox)
    /\ UNCHANGED <<tree, outOfFlowDescendants, displayBox, formattingStates, style,
                   root, placed, offsetsApplied, mapped, validated>>

\* auto formattingContext = layoutContext.formattingContext(layoutBox);
FormattingContextFor ==
    /\ atStatement("formattingContext")
    /\ logged("formattingContext", currentBox)
    /\ stepTo(nextStatement("formattingContext"))
    /\ UNCHANGED <<tree, outOfFlowDescendants, displayBox, formattingStates, phase, style,
                   root, placed, offsetsApplied, mapped, validated>>

\* computeBorderAndPadding(layoutContext, layoutBox);
ComputeBorderAndPadding ==
    /\ atStatement("computeBorderAndPadding")
    /\ displayBox' = [displayBox EXCEPT
                        ![currentBox] = setBorderAndPadding(@, style[currentBox])]
    /\ logged("computeBorderAndPadding", currentBox)
    /\ stepTo(nextStatement("computeBorderAndPadding"))
    /\ UNCHANGED <<tree, outOfFlowDescendants, formattingStates, phase, style,
                   root, placed, offsetsApplied, mapped, validated>>

\* computeOutOfFlowHorizontalGeometry(layoutContext, layoutBox);
ComputeOutOfFlowHorizontalGeometry ==
    /\ atStatement("computeOutOfFlowHorizontalGeometry")
    /\ LET layoutBox == currentBox
           containingBlockWidth == displayBox[containingBlock(layoutBox)].contentBoxWidth
       IN  displayBox' = [displayBox EXCEPT ![layoutBox] =
               setHorizontalGeometry(@,
                   selectedHorizontalGeometry(replaced(layoutBox), style[layoutBox],
                                              displayBox[layoutBox], containingBlockWidth))]
    /\ logged("computeOutOfFlowHorizontalGeometry", currentBox)
    /\ stepTo(nextStatement("computeOutOfFlowHorizontalGeometry"))
    /\ UNCHANGED <<tree, outOfFlowDescendants, formattingStates, phase, style,
                   root, placed, offsetsApplied, mapped, validated>>

\* auto& formattingState = layoutContext.createFormattingStateForFormattingRootIfNeeded(layoutBox);
CreateFormattingStateForFormattingRootIfNeeded ==
    /\ atStatement("createFormattingStateForFormattingRootIfNeeded")
    /\ formattingStates' = formattingStates \cup {currentBox}
    /\ logged("createFormattingStateForFormattingRootIfNeeded", currentBox)
    /\ stepTo(nextStatement("createFormattingStateForFormattingRootIfNeeded"))
    /\ UNCHANGED <<tree, outOfFlowDescendants, displayBox, phase, style,
                   root, placed, offsetsApplied, mapped, validated>>

\* The boxes a formatting context rooted at formattingRoot lays out: the in-flow
\* boxes whose chain of parents reaches it through in-flow boxes only.
RECURSIVE isInFlowWithin(_, _)
isInFlowWithin(b, formattingRoot) ==
    /\ tree.parent[b] # NoBox
    /\ ~isOutOfFlowPositioned(b)
    /\ \/ tree.parent[b] = formattingRoot
       \/ isInFlowWithin(tree.parent[b], formattingRoot)

\* The Display::Box in-flow layout leaves for a box in a formatting context whose
\* root has the given content width: a block that fills the width, without margin,
\* border or padding.
inFlowDisplayBox(width, height) ==
    [top |-> 0, left |-> 0, contentBoxWidth |-> width, contentBoxHeight |-> height,
     horizontalMargin |-> [left |-> 0, right |-> 0],
     horizontalNonComputedMargin |-> [left |-> 0, right |-> 0],
     verticalMargin |-> [top |-> 0, bottom |-> 0],
     verticalNonCollapsedMargin |-> [top |-> 0, bottom |-> 0],
     border |-> [left |-> 0, right |-> 0, top |-> 0, bottom |-> 0],
     padding |-> NoPadding,
     valid |-> {"top", "left", "contentBoxWidth", "contentBoxHeight", "horizontalMargin",
                "verticalMargin", "border", "padding"}]

\* A default-constructed Display::Box: nothing written yet.
unresolvedDisplayBox == [inFlowDisplayBox(0, 0) EXCEPT !.valid = {}]

\* formattingContext->layout(layoutContext, formattingState);
Layout ==
    /\ atStatement("layout")
    /\ displayBox' = [b \in Boxes |->
            IF isInFlowWithin(b, currentBox)
            THEN inFlowDisplayBox(displayBox[currentBox].contentBoxWidth, 0)
            ELSE displayBox[b]]
    /\ logged("layout", currentBox)
    /\ stepTo(nextStatement("layout"))
    /\ UNCHANGED <<tree, outOfFlowDescendants, formattingStates, phase, style,
                   root, placed, offsetsApplied, mapped, validated>>

\* computeOutOfFlowVerticalGeometry(layoutContext, layoutBox);
ComputeOutOfFlowVerticalGeometry ==
    /\ atStatement("computeOutOfFlowVerticalGeometry")
    /\ LET layoutBox == currentBox
           containingBlockHeight == displayBox[containingBlock(layoutBox)].contentBoxHeight
       IN  displayBox' = [displayBox EXCEPT ![layoutBox] =
               setVerticalGeometry(@,
                   selectedVerticalGeometry(replaced(layoutBox), style[layoutBox],
                                            displayBox[layoutBox], containingBlockHeight,
                                            style[layoutBox].contentHeight))]
    /\ logged("computeOutOfFlowVerticalGeometry", currentBox)
    /\ stepTo(nextStatement("computeOutOfFlowVerticalGeometry"))
    /\ UNCHANGED <<tree, outOfFlowDescendants, formattingStates, phase, style,
                   root, placed, offsetsApplied, mapped, validated>>

\* layoutOutOfFlowDescendants(layoutContext, layoutBox); the recursive call.  The
\* caller resumes after it, when the callee has returned.
RecursiveLayoutOutOfFlowDescendants ==
    /\ atStatement("layoutOutOfFlowDescendants")
    /\ logged("layoutOutOfFlowDescendants", currentBox)
    /\ LET caller == [stack EXCEPT ![Len(stack)] =
                        resumedAt(@, nextStatement("layoutOutOfFlowDescendants"))]
       IN  stack' = IF returnsEarly(currentBox)
                    THEN caller
                    ELSE Append(caller, enterLoop(currentBox))
    /\ UNCHANGED <<tree, outOfFlowDescendants, displayBox, formattingStates, phase, style,
                   root, placed, offsetsApplied, mapped, validated>>

\* The loop is over: the call returns to its caller, the first call to the pass.
Return ==
    /\ atStatement("return")
    /\ stack' = SubSeq(stack, 1, Len(stack) - 1)
    /\ phase' = IF Len(stack) = 1 THEN "done" ELSE "running"
    /\ UNCHANGED <<tree, outOfFlowDescendants, displayBox, formattingStates, trace, style,
                   root, placed, offsetsApplied, mapped, validated>>

\* --------------------------------- FormattingContext: in-flow positioned

\* computeInFlowPositionedPosition (implemented by the concrete formatting
\* context): the box moves by its relative offset.
computeInFlowPositionedPosition(db, s) ==
    [db EXCEPT !.left = @ + (IF s.left = Auto THEN 0 ELSE s.left),
               !.top = @ + (IF s.top = Auto THEN 0 ELSE s.top)]

\* Mutant: the nested formatting context test is dropped.
skipsPlacementNever(container) == FALSE

\* placeInFlowPositionedChildren, its early return: the container establishes a
\* formatting context of its own and is not this context's root.
skipsPlacement(container) ==
    establishesFormattingContext(container) /\ container # root

\* placeInFlowPositionedChildren, its loop over the children from the i-th on:
\* the boxes computeInFlowPositionedPosition is called on, in order.
RECURSIVE positionedChildrenFrom(_, _)
positionedChildrenFrom(children, i) ==
    IF i > Len(children) THEN <<>>
    ELSE IF ~isInFlowPositioned(children[i]) THEN positionedChildrenFrom(children, i + 1)
    ELSE <<children[i]>> \o positionedChildrenFrom(children, i + 1)

\* The boxes one call of placeInFlowPositionedChildren moves.
boxesToPlace(container) ==
    IF skipsPlacement(container) THEN <<>>
    ELSE positionedChildrenFrom(childrenOf(container), 1)

\* How often b occurs in a sequence of boxes.
occurrences(boxes, b) == Cardinality({i \in 1..Len(boxes) : boxes[i] = b})

\* The formatting context runs placeInFlowPositionedChildren on a container it
\* has not yet run it on in this pass.
PlaceInFlowPositionedChildren(container) ==
    /\ phase = "placing"
    /\ isContainer(container)
    /\ container \notin placed
    /\ placed' = placed \cup {container}
    /\ LET moved == boxesToPlace(container)
       IN  /\ displayBox' = [b \in Boxes |->
                    IF occurrences(moved, b) > 0
                    THEN computeInFlowPositionedPosition(displayBox[b], style[b])
                    ELSE displayBox[b]]
           /\ offsetsApplied' = [b \in Boxes |-> offsetsApplied[b] + occurrences(moved, b)]
    /\ UNCHANGED <<tree, outOfFlowDescendants, formattingStates, phase, stack, trace,
                   style, root, mapped, validated>>

\* ------------------------------------- FormattingContext: coordinate mapper

\* Display::Box::topLeft()
topLeft(db) == <<db.left, db.top>>

\* Position::moveBy
moveBy(position, offset) == <<position[1] + offset[1], position[2] + offset[2]>>

\* Mutant: the walk stops one containing block late, after adding the ancestor's
\* own top-left.
RECURSIVE mapBoxToAncestorLoopInclusive(_, _, _)
mapBoxToAncestorLoopInclusive(topLeftSoFar, container, ancestor) ==
    IF container = NoBox THEN [containingBlock |-> container, topLeft |-> topLeftSoFar]
    ELSE IF container = ancestor
    THEN [containingBlock |-> container,
          topLeft |-> moveBy(topLeftSoFar, topLeft(displayBox[container]))]
    ELSE mapBoxToAncestorLoopInclusive(moveBy(topLeftSoFar, topLeft(displayBox[container])),
                                       containingBlock(container), ancestor)

\* mapBoxToAncestor, its loop: where the walk up the containing blocks ends and
\* what it has accumulated.
RECURSIVE mapBoxToAncestorLoop(_, _, _)
mapBoxToAncestorLoop(topLeftSoFar, container, ancestor) ==
    IF container # NoBox /\ container # ancestor
    THEN mapBoxToAncestorLoop(moveBy(topLeftSoFar, topLeft(displayBox[container])),
                              containingBlock(container), ancestor)
    ELSE [containingBlock |-> container, topLeft |-> topLeftSoFar]

\* mapBoxToAncestor: a copy of the box's Display::Box, moved when the walk reached
\* the ancestor.
mapBoxToAncestor(layoutBox, ancestor) ==
    LET db == displayBox[layoutBox]
        walk == mapBoxToAncestorLoop(topLeft(db), containingBlock(layoutBox), ancestor)
    IN  IF walk.containingBlock = NoBox THEN db
        ELSE [db EXCEPT !.left = walk.topLeft[1], !.top = walk.topLeft[2]]

\* mapCoordinateToAncestor, its loop.
RECURSIVE mapCoordinateToAncestorLoop(_, _, _)
mapCoordinateToAncestorLoop(mappedPosition, container, ancestor) ==
    IF container # NoBox /\ container # ancestor
    THEN mapCoordinateToAncestorLoop(moveBy(mappedPosition, topLeft(displayBox[container])),
                                     containingBlock(container), ancestor)
    ELSE [container |-> container, mappedPosition |-> mappedPosition]

\* Mutant: the accumulated position is returned also when the walk ran off the
\* top of the tree.
mapCoordinateToAncestorPartial(position, container, ancestor) ==
    mapCoordinateToAncestorLoop(position, container, ancestor).mappedPosition

\* mapCoordinateToAncestor
mapCoordinateToAncestor(position, container, ancestor) ==
    LET walk == mapCoordinateToAncestorLoop(position, container, ancestor)
    IN  IF walk.container = NoBox THEN position ELSE walk.mappedPosition

\* mapTopLeftToAncestor
mapTopLeftToAncestor(layoutBox, ancestor) ==
    mapCoordinateToAncestor(topLeft(displayBox[layoutBox]), containingBlock(layoutBox), ancestor)

MapBoxToAncestor(layoutBox, ancestor) ==
    /\ phase = "mapping"
    /\ mapped.operation = "none"
    /\ isContainer(ancestor)
    /\ mapped' = [operation |-> "mapBoxToAncestor", box |-> layoutBox, ancestor |-> ancestor,
                  position |-> topLeft(displayBox[layoutBox]),
                  result |-> topLeft(mapBoxToAncestor(layoutBox, ancestor)),
                  resultBox |-> mapBoxToAncestor(layoutBox, ancestor)]
    /\ UNCHANGED <<tree, outOfFlowDescendants, displayBox, formattingStates, phase, stack,
                   trace, style, root, placed, offsetsApplied, validated>>

MapTopLeftToAncestor(layoutBox, ancestor) ==
    /\ phase = "mapping"
    /\ mapped.operation = "none"
    /\ isContainer(ancestor)
    /\ containingBlock(layoutBox) # NoBox
    /\ mapped' = [operation |-> "mapTopLeftToAncestor", box |-> layoutBox,
                  ancestor |-> ancestor,
                  position |-> topLeft(displayBox[layoutBox]),
                  result |-> mapTopLeftToAncestor(layoutBox, ancestor),
                  resultBox |-> displayBox[layoutBox]]
    /\ UNCHANGED <<tree, outOfFlowDescendants, displayBox, formattingStates, phase, stack,
                   trace, style, root, placed, offsetsApplied, validated>>

MapCoordinateToAncestor(position, container, ancestor) ==
    /\ phase = "mapping"
    /\ mapped.operation = "none"
    /\ isContainer(container)
    /\ isContainer(ancestor)
    /\ mapped' = [operation |-> "mapCoordinateToAncestor", box |-> container,
                  ancestor |-> ancestor, position |-> position,
                  result |-> mapCoordinateToAncestor(position, container, ancestor),
                  resultBox |-> displayBox[container]]
    /\ UNCHANGED <<tree, outOfFlowDescendants, displayBox, formattingStates, phase, stack,
                   trace, style, root, placed, offsetsApplied, validated>>

\* ------------------------------------------- FormattingContext: validator

\* The first ASSERT of validateGeometryConstraintsAfterLayout, for one box.
horizontalConstraintHolds(layoutBox) ==
    LET db == displayBox[layoutBox]
        containingBlockWidth == displayBox[containingBlock(layoutBox)].contentBoxWidth
    IN  ((isBlockLevelBox(layoutBox) \/ isOutOfFlowPositioned(layoutBox)) /\ ~replaced(layoutBox))
        => db.horizontalMargin.left + db.border.left + paddingOr0(db, "left") + db.contentBoxWidth
           + paddingOr0(db, "right") + db.border.right + db.horizontalMargin.right
           = containingBlockWidth

\* The second ASSERT of validateGeometryConstraintsAfterLayout, for one box.
verticalConstraintHolds(layoutBox) ==
    LET db == displayBox[layoutBox]
        containingBlockHeight == displayBox[containingBlock(layoutBox)].contentBoxHeight
    IN  (isOutOfFlowPositioned(layoutBox) /\ ~replaced(layoutBox))
        => db.top + db.verticalMargin.top + db.border.top + paddingOr0(db, "top")
           + db.contentBoxHeight + paddingOr0(db, "bottom") + db.border.bottom
           + db.verticalMargin.bottom
           = containingBlockHeight

\* The boxes the validator looks at: the descendants of the root that belong to
\* the root's formatting context.
validatedBoxes ==
    {b \in Boxes : isDescendantOf(b, root) /\ formattingContextRoot(b) = root}

\* What a debug build's validateGeometryConstraintsAfterLayout comes to: it
\* passes, or stops at the first box and assertion that fails.
validationOutcome ==
    LET failing == {b \in validatedBoxes :
                        ~horizontalConstraintHolds(b) \/ ~verticalConstraintHolds(b)}
    IN  IF ~isContainer(root) \/ failing = {}
        THEN [state |-> "passed", box |-> NoBox, assertion |-> "none"]
        ELSE LET first == CHOOSE b \in failing : \A c \in failing : b <= c
             IN  [state |-> "failed", box |-> first,
                  assertion |-> IF ~horizontalConstraintHolds(first)
                                THEN "horizontal" ELSE "vertical"]

ValidateGeometryConstraintsAfterLayout ==
    /\ phase = "done"
    /\ validated.state = "none"
    /\ validated' = validationOutcome
    /\ UNCHANGED <<tree, outOfFlowDescendants, displayBox, formattingStates, phase, stack,
                   trace, style, root, placed, offsetsApplied, mapped>>

\* ----------------------------------------------------------- initial states

\* Parent functions: box 0 is the initial containing block, every other box has
\* an earlier box as its parent.
Parents ==
    {par \in [Boxes -> Boxes \cup {NoBox}] :
        /\ par[0] = NoBox
        /\ \A b \in Boxes \ {0} : par[b] \in 0..(b - 1)}

\* The members of S in the order rank gives them.
RECURSIVE inOrder(_, _)
inOrder(S, rank) ==
    IF S = {} THEN <<>>
    ELSE LET first == CHOOSE b \in S : \A c \in S : rank[b] <= rank[c]
         IN  <<first>> \o inOrder(S \ {first}, rank)

\* Container::outOfFlowDescendants() as the tree builder leaves it: the out-of-flow
\* boxes whose containing block the container is, in the order they were added.
outOfFlowDescendantsIn(par, pos, rank) ==
    [c \in Boxes |->
        inOrder({b \in Boxes \ {0} : pos[b] \in {"absolute", "fixed"}
                                      /\ containingBlockIn(par, pos, b) = c}, rank)]

\* The style of a box whose every length is 'auto' and which has no content.
PlainStyle ==
    [left |-> Auto, right |-> Auto, width |-> Auto, marginLeft |-> Auto, marginRight |-> Auto,
     minWidth |-> Auto, maxWidth |-> Auto, intrinsicWidth |-> 1, staticLeft |-> 0,
     top |-> Auto, bottom |-> Auto, height |-> Auto, marginTop |-> Auto, marginBottom |-> Auto,
     minHeight |-> Auto, maxHeight |-> Auto, intrinsicHeight |-> 1, staticTop |-> 0,
     contentHeight |-> 1,
     border |-> [left |-> 0, right |-> 0, top |-> 0, bottom |-> 0],
     padding |-> NoPadding]

OptionalLengths == {Auto} \cup Lengths

Offsets == {Auto, 1}

\* Border and padding as the style gives them.
BorderAndPaddings ==
    {[border |-> [left |-> 0, right |-> 0, top |-> 0, bottom |-> 0], padding |-> NoPadding],
     [border |-> [left |-> 1, right |-> 0, top |-> 0, bottom |-> 1],
      padding |-> [left |-> 0, right |-> 1, top |-> 1, bottom |-> 0]]}

\* Styles that vary the horizontal properties.
HorizontalStyles ==
    {[PlainStyle EXCEPT !.left = l, !.right = r, !.width = w, !.marginLeft = ml,
                        !.marginRight = mr, !.minWidth = mn, !.maxWidth = mx,
                        !.border = bp.border, !.padding = bp.padding] :
        l \in Offsets, r \in Offsets, w \in OptionalLengths, ml \in {Auto, 1}, mr \in {Auto, 0},
        mn \in OptionalLengths, mx \in OptionalLengths, bp \in BorderAndPaddings}

\* Styles that vary the vertical properties.
VerticalStyles ==
    {[PlainStyle EXCEPT !.top = t, !.bottom = b, !.height = h, !.marginTop = mt,
                        !.marginBottom = mb, !.minHeight = mn, !.maxHeight = mx,
                        !.border = bp.border, !.padding = bp.padding] :
        t \in Offsets, b \in Offsets, h \in OptionalLengths, mt \in {Auto, 1}, mb \in {Auto, 0},
        mn \in OptionalLengths, mx \in OptionalLengths, bp \in BorderAndPaddings}

\* The Display::Box of the initial containing block.
initialContainingBlockDisplayBox == inFlowDisplayBox(MaxLength + 2, MaxLength + 2)

\* Whether the box or one of its ancestors is out-of-flow positioned.
RECURSIVE isWithinOutOfFlow(_, _, _)
isWithinOutOfFlow(par, pos, b) ==
    IF b = NoBox THEN FALSE
    ELSE pos[b] \in {"absolute", "fixed"} \/ isWithinOutOfFlow(par, pos, par[b])

\* The store before the out-of-flow pass: in-flow layout of the root's formatting
\* context has resolved the in-flow boxes it reaches, nothing else is written.
displayBoxesBeforePass(par, pos) ==
    [b \in Boxes |->
        IF b = 0 THEN initialContainingBlockDisplayBox
        ELSE IF ~isWithinOutOfFlow(par, pos, b) THEN inFlowDisplayBox(MaxLength + 2, 0)
        ELSE unresolvedDisplayBox]

NoMapping == [operation |-> "none", box |-> NoBox, ancestor |-> NoBox,
              position |-> <<0, 0>>, result |-> <<0, 0>>, resultBox |-> unresolvedDisplayBox]

NotValidated == [state |-> "none", box |-> NoBox, assertion |-> "none"]

\* A pass over any tree of plain boxes.  The out-of-flow boxes were added to their
\* containing block in tree order or against it; the boxes without children are
\* all containers or all not.
PassInit ==
    /\ \E par \in Parents, pos \in [Boxes \ {0} -> Positions], leavesAreContainers \in BOOLEAN,
          rank \in {[b \in Boxes |-> b], [b \in Boxes |-> NumBoxes - b]} :
        LET position == [b \in Boxes |-> IF b = 0 THEN "static" ELSE pos[b]]
        IN  /\ tree = [parent |-> par, position |-> position,
                       isContainer |-> [b \in Boxes |->
                            b = 0 \/ leavesAreContainers \/ \E c \in Boxes : par[c] = b],
                       replaced |-> [b \in Boxes |-> FALSE],
                       formattingRoot |-> [b \in Boxes |-> FALSE],
                       blockLevel |-> [b \in Boxes |-> position[b] \in {"static", "relative"}]]
            /\ outOfFlowDescendants = outOfFlowDescendantsIn(par, position, rank)
            /\ displayBox = displayBoxesBeforePass(par, position)
    /\ style = [b \in Boxes |-> PlainStyle]
    /\ formattingStates = {0}
    /\ phase = "idle"
    /\ stack = <<>>
    /\ trace = <<>>
    /\ root = 0
    /\ placed = {}
    /\ offsetsApplied = [b \in Boxes |-> 0]
    /\ mapped = NoMapping
    /\ validated = NotValidated

\* One out-of-flow box in the initial containing block, with any style; the other
\* boxes are plain in-flow children of the initial containing block.
GeometryInit ==
    /\ \E isReplaced \in BOOLEAN, s \in HorizontalStyles \cup VerticalStyles :
        LET par == [b \in Boxes |-> IF b = 0 THEN NoBox ELSE 0]
            pos == [b \in Boxes |-> IF b = 1 THEN "absolute" ELSE "static"]
        IN  /\ tree = [parent |-> par, position |-> pos,
                       isContainer |-> [b \in Boxes |-> b = 0],
                       replaced |-> [b \in Boxes |-> b = 1 /\ isReplaced],
                       formattingRoot |-> [b \in Boxes |-> FALSE],
                       blockLevel |-> [b \in Boxes |-> b # 1]]
            /\ outOfFlowDescendants = [b \in Boxes |-> IF b = 0 THEN <<1>> ELSE <<>>]
            /\ displayBox = displayBoxesBeforePass(par, pos)
            /\ style = [b \in Boxes |-> IF b = 1 THEN s ELSE PlainStyle]
    /\ formattingStates = {0}
    /\ phase = "idle"
    /\ stack = <<>>
    /\ trace = <<>>
    /\ root = 0
    /\ placed = {}
    /\ offsetsApplied = [b \in Boxes |-> 0]
    /\ mapped = NoMapping
    /\ validated = NotValidated

Init == PassInit \/ GeometryInit

Next ==
    \/ \E layoutBox \in Boxes : LayoutOutOfFlowDescendants(layoutBox)
    \/ FormattingContextFor
    \/ ComputeBorderAndPadding
    \/ ComputeOutOfFlowHorizontalGeometry
    \/ CreateFormattingStateForFormattingRootIfNeeded
    \/ Layout
    \/ ComputeOutOfFlowVerticalGeometry
    \/ RecursiveLayoutOutOfFlowDescendants
    \/ Return
    \/ ValidateGeometryConstraintsAfterLayout

Spec == Init /\ [][Next]_vars

\* The pass runs on: layoutOutOfFlowDescendants is synchronous code that is not
\* suspended or cancelled.
FairSpec == PassInit /\ [][Next]_vars /\ WF_vars(Next)

\* Every box resolved, box b at left scale * 2^b and top scale * 3^b, so that a sum
\* of top-lefts tells which boxes went into it.
displayBoxesAt(scale) ==
    [b \in Boxes |-> [inFlowDisplayBox(MaxLength + 2, MaxLength + 2) EXCEPT
                        !.left = scale * 2 ^ b, !.top = scale * 3 ^ b]]

\* Coordinate queries after layout, over any tree: every box can be named as the
\* ancestor.
MapInit ==
    /\ \E par \in Parents, pos \in [Boxes \ {0} -> Positions], scale \in {1, MaxLength} :
        LET position == [b \in Boxes |-> IF b = 0 THEN "static" ELSE pos[b]]
        IN  /\ tree = [parent |-> par, position |-> position,
                       isContainer |-> [b \in Boxes |-> TRUE],
                       replaced |-> [b \in Boxes |-> FALSE],
                       formattingRoot |-> [b \in Boxes |-> FALSE],
                       blockLevel |-> [b \in Boxes |-> position[b] \in {"static", "relative"}]]
            /\ outOfFlowDescendants =
                    outOfFlowDescendantsIn(par, position, [b \in Boxes |-> b])
            /\ displayBox = displayBoxesAt(scale)
    /\ style = [b \in Boxes |-> PlainStyle]
    /\ formattingStates = {0}
    /\ phase = "mapping"
    /\ stack = <<>>
    /\ trace = <<>>
    /\ root = 0
    /\ placed = {}
    /\ offsetsApplied = [b \in Boxes |-> 0]
    /\ mapped = NoMapping
    /\ validated = NotValidated

MapNext ==
    \/ \E layoutBox \in Boxes, ancestor \in Boxes : MapBoxToAncestor(layoutBox, ancestor)
    \/ \E layoutBox \in Boxes, ancestor \in Boxes : MapTopLeftToAncestor(layoutBox, ancestor)
    \/ \E position \in {<<0, 0>>, <<MaxLength, 1>>}, container \in Boxes, ancestor \in Boxes :
            MapCoordinateToAncestor(position, container, ancestor)

MapSpec == MapInit /\ [][MapNext]_vars

\* Styles of relatively positioned boxes: the offsets that move them.
RelativeStyles ==
    {[PlainStyle EXCEPT !.left = l, !.top = t] : l \in {Auto, 1}, t \in {1, MaxLength}}

\* In-flow layout of a formatting context is over; one box besides the initial
\* containing block may establish a formatting context through its style, and the
\* context that runs is the initial containing block's or that box's.
PlaceInit ==
    /\ \E par \in Parents, pos \in [Boxes \ {0} -> Positions], nested \in Boxes,
          s \in RelativeStyles :
        LET position == [b \in Boxes |-> IF b = 0 THEN "static" ELSE pos[b]]
        IN  /\ tree = [parent |-> par, position |-> position,
                       isContainer |-> [b \in Boxes |-> b = 0 \/ \E c \in Boxes : par[c] = b],
                       replaced |-> [b \in Boxes |-> FALSE],
                       formattingRoot |-> [b \in Boxes |-> b # 0 /\ b = nested],
                       blockLevel |-> [b \in Boxes |-> position[b] \in {"static", "relative"}]]
            /\ outOfFlowDescendants =
                    outOfFlowDescendantsIn(par, position, [b \in Boxes |-> b])
            /\ root \in {0, nested}
            /\ style = [b \in Boxes |-> IF position[b] = "relative" THEN s ELSE PlainStyle]
    /\ displayBox = [b \in Boxes |-> inFlowDisplayBox(MaxLength + 2, 0)]
    /\ formattingStates = {0}
    /\ phase = "placing"
    /\ stack = <<>>
    /\ trace = <<>>
    /\ placed = {}
    /\ offsetsApplied = [b \in Boxes |-> 0]
    /\ mapped = NoMapping
    /\ validated = NotValidated

PlaceNext == \E container \in Boxes : PlaceInFlowPositionedChildren(container)

PlaceSpec == PlaceInit /\ [][PlaceNext]_vars

\* ------------------------------------------------------------------ claims

\* The box the pass first called layoutOutOfFlowDescendants on.
firstBox == trace[1][2]

\* Statement st of the loop body has run for box b.
did(st, b) == \E i \in 2..Len(trace) : trace[i] = <<st, b>>

\* How often statement st of the loop body has run for box b.
timesDone(st, b) == Cardinality({i \in 2..Len(trace) : trace[i] = <<st, b>>})

\* Every statement of the loop body has run for box b.
completed(b) == \A k \in 1..Len(LoopBody) : did(LoopBody[k], b)

\* The boxes reachable from a container through out-of-flow descendant sets.
RECURSIVE reachableFrom(_)
reachableFrom(container) ==
    LET members == {outOfFlowDescendants[container][i] :
                        i \in 1..Len(outOfFlowDescendants[container])}
    IN  members \cup UNION {reachableFrom(m) : m \in members}

minWidthSolution(b) ==
    outOfFlowHorizontalGeometry(replaced(b), style[b], displayBox[b],
        displayBox[containingBlock(b)].contentBoxWidth, style[b].minWidth)

minHeightSolution(b) ==
    outOfFlowVerticalGeometry(replaced(b), style[b], displayBox[b],
        displayBox[containingBlock(b)].contentBoxHeight, style[b].contentHeight,
        style[b].minHeight)

\* C1: when min and max are both not 'auto' and min exceeds max, the content width
\* written by computeOutOfFlowHorizontalGeometry is the width of the min-width
\* solution and the content height written by computeOutOfFlowVerticalGeometry is
\* the height of the min-height solution, whatever the unconstrained solution.
C1_MinDominatesMax ==
    \A b \in Boxes :
        /\ (/\ did("computeOutOfFlowHorizontalGeometry", b)
            /\ style[b].minWidth # Auto /\ style[b].maxWidth # Auto
            /\ style[b].minWidth > style[b].maxWidth)
           => displayBox[b].contentBoxWidth = minWidthSolution(b).widthAndMargin.width
        /\ (/\ did("computeOutOfFlowVerticalGeometry", b)
            /\ style[b].minHeight # Auto /\ style[b].maxHeight # Auto
            /\ style[b].minHeight > style[b].maxHeight)
           => displayBox[b].contentBoxHeight = minHeightSolution(b).heightAndMargin.height

\* C1 witness: horizontal geometry was resolved for a box with max-width below
\* min-width and a width above both.
C1_Witness ==
    \E b \in Boxes :
        /\ did("computeOutOfFlowHorizontalGeometry", b)
        /\ style[b].maxWidth # Auto /\ style[b].minWidth > style[b].maxWidth
        /\ style[b].width > style[b].minWidth
        /\ ~replaced(b)

\* C2 (as claimed): every non-replaced out-of-flow box whose border, padding and
\* horizontal geometry have been written satisfies margin-left + border-left +
\* padding-left + width + padding-right + border-right + margin-right = content
\* width of its containing block, and the validator's assertion never fails.
C2_HorizontalBoxModelEquality ==
    /\ \A b \in Boxes :
        (/\ isOutOfFlowPositioned(b) /\ ~replaced(b)
         /\ did("computeBorderAndPadding", b)
         /\ did("computeOutOfFlowHorizontalGeometry", b))
        => displayBox[b].horizontalMargin.left + displayBox[b].border.left
           + paddingOr0(displayBox[b], "left") + displayBox[b].contentBoxWidth
           + paddingOr0(displayBox[b], "right") + displayBox[b].border.right
           + displayBox[b].horizontalMargin.right
           = displayBox[containingBlock(b)].contentBoxWidth
    /\ validated.assertion # "horizontal"

\* The calls the loop body made for box b, in the order it made them.
statementsFor(b) ==
    LET isForBox(e) == e[2] = b
        events == SelectSeq(SubSeq(trace, 2, Len(trace)), isForBox)
    IN  [i \in 1..Len(events) |-> events[i][1]]

\* st1 ran for box b before st2 did, if st2 ran at all.
ranBefore(st1, st2, b) ==
    \A j \in 2..Len(trace) :
        trace[j] = <<st2, b>> => \E i \in 2..(j - 1) : trace[i] = <<st1, b>>

\* C3 (as claimed): for every out-of-flow box the steps run in the order border and
\* padding, horizontal geometry, FormattingContext and formatting state obtained,
\* nested layout, vertical geometry, recursion.
C3_OrderAsClaimed ==
    \A b \in Boxes :
        /\ ranBefore("computeBorderAndPadding", "computeOutOfFlowHorizontalGeometry", b)
        /\ ranBefore("computeOutOfFlowHorizontalGeometry", "formattingContext", b)
        /\ ranBefore("computeOutOfFlowHorizontalGeometry",
                     "createFormattingStateForFormattingRootIfNeeded", b)
        /\ ranBefore("formattingContext", "layout", b)
        /\ ranBefore("createFormattingStateForFormattingRootIfNeeded", "layout", b)
        /\ ranBefore("layout", "computeOutOfFlowVerticalGeometry", b)
        /\ ranBefore("computeOutOfFlowVerticalGeometry", "layoutOutOfFlowDescendants", b)

\* C3 (amended): for every out-of-flow box the calls made are, in this order and
\* with none skipped or repeated: FormattingContext obtained, border and padding,
\* horizontal geometry, formatting state obtained, nested layout, vertical
\* geometry, recursion.
C3_StatementOrder ==
    \A b \in Boxes :
        /\ Len(statementsFor(b)) <= Len(LoopBody)
        /\ statementsFor(b) = SubSeq(LoopBody, 1, Len(statementsFor(b)))

\* C3 witness: the whole loop body has run for a box.
C3_Witness == \E b \in Boxes : completed(b) /\ phase = "running"

\* C4: for consecutive members A, B of a container's out-of-flow descendant set,
\* B's first step starts only when every step of A and of every box reachable
\* from A through out-of-flow descendant sets is completed.
C4_InsertionOrderDepthFirst ==
    \A c \in Boxes : \A i \in 1..(Len(outOfFlowDescendants[c]) - 1) :
        LET A == outOfFlowDescendants[c][i]
            B == outOfFlowDescendants[c][i + 1]
        IN  (\E st \in {LoopBody[k] : k \in 1..Len(LoopBody)} : did(st, B))
            => \A x \in {A} \cup reachableFrom(A) : completed(x)

\* C4 witness: the second member of a set has started, and the first member has
\* out-of-flow descendants of its own.
C4_Witness ==
    \E c \in Boxes :
        /\ Len(outOfFlowDescendants[c]) >= 2
        /\ Len(outOfFlowDescendants[outOfFlowDescendants[c][1]]) >= 1
        /\ did("formattingContext", outOfFlowDescendants[c][2])

\* The four steps C5 counts.
LayoutSteps ==
    {"computeBorderAndPadding", "computeOutOfFlowHorizontalGeometry", "layout",
     "computeOutOfFlowVerticalGeometry"}

\* C5: called on a container that is positioned or the initial containing block,
\* layoutOutOfFlowDescendants returns, no step ever runs twice for a box, and on
\* return every box reachable through out-of-flow descendant sets has had border
\* and padding, horizontal geometry, nested layout and vertical geometry run
\* exactly once.
C5_TerminatesEachBoxOnce ==
    /\ <>(phase = "done")
    /\ [](\A b \in Boxes : \A st \in LayoutSteps : timesDone(st, b) <= 1)
    /\ []((phase = "done"
           /\ (isPositioned(firstBox) \/ isInitialContainingBlock(firstBox))
           /\ isContainer(firstBox))
          => \A b \in reachableFrom(firstBox) : \A st \in LayoutSteps : timesDone(st, b) = 1)

\* C5 witness: the call has returned after laying out a box and a box nested in it.
C5_Witness ==
    /\ phase = "done"
    /\ \E b \in reachableFrom(firstBox) : reachableFrom(b) # {}
    /\ Cardinality(reachableFrom(firstBox)) = NumBoxes

\* C9 (as claimed): the left offset written is the unconstrained solution's left
\* plus the left margin of the selected solution.
C9_LeftFromUnconstrainedSolution ==
    \A b \in Boxes :
        did("computeOutOfFlowHorizontalGeometry", b)
        => displayBox[b].left =
              outOfFlowHorizontalGeometry(replaced(b), style[b], displayBox[b],
                  displayBox[containingBlock(b)].contentBoxWidth, Nullopt).left
              + displayBox[b].horizontalMargin.left

\* C9 (amended): the left offset written is the selected solution's own left plus
\* its left margin, and the content width, margin and non-computed margin written
\* are those of the selected solution.
C9_WritesSelectedSolution ==
    \A b \in Boxes :
        did("computeOutOfFlowHorizontalGeometry", b)
        => LET selected == selectedHorizontalGeometry(replaced(b), style[b], displayBox[b],
                               displayBox[containingBlock(b)].contentBoxWidth)
           IN  /\ displayBox[b].left = selected.left + selected.widthAndMargin.margin.left
               /\ displayBox[b].contentBoxWidth = selected.widthAndMargin.width
               /\ displayBox[b].horizontalMargin = selected.widthAndMargin.margin
               /\ displayBox[b].horizontalNonComputedMargin
                    = selected.widthAndMargin.nonComputedMargin

\* C9 witness: the max-width solution replaced the unconstrained one, its left
\* differs from the unconstrained left, and its left margin is not zero.
C9_Witness ==
    \E b \in Boxes :
        /\ did("computeOutOfFlowHorizontalGeometry", b)
        /\ style[b].maxWidth # Auto /\ style[b].minWidth = Auto
        /\ displayBox[b].contentBoxWidth = style[b].maxWidth
        /\ displayBox[b].horizontalMargin.left # 0
        /\ displayBox[b].left - displayBox[b].horizontalMargin.left
             # outOfFlowHorizontalGeometry(replaced(b), style[b], displayBox[b],
                   displayBox[containingBlock(b)].contentBoxWidth, Nullopt).left

\* C10: when the geometry of the box of the first call is resolved, the traversal
\* is about to resolve a box's horizontal (vertical) geometry only when the content
\* width (height) of the box's containing block has been written.
C10_ContainingBlockResolvedFirst ==
    (/\ phase = "running"
     /\ {"contentBoxWidth", "contentBoxHeight"} \subseteq displayBox[firstBox].valid)
    => /\ Top.pc = "computeOutOfFlowHorizontalGeometry"
          => "contentBoxWidth" \in displayBox[containingBlock(currentBox)].valid
       /\ Top.pc = "computeOutOfFlowVerticalGeometry"
          => "contentBoxHeight" \in displayBox[containingBlock(currentBox)].valid

\* C10 witness: the vertical geometry of a box is about to be resolved against a
\* containing block that the pass itself resolved.
C10_Witness ==
    /\ phase = "running"
    /\ {"contentBoxWidth", "contentBoxHeight"} \subseteq displayBox[firstBox].valid
    /\ Top.pc = "computeOutOfFlowVerticalGeometry"
    /\ containingBlock(currentBox) # firstBox
    /\ did("computeOutOfFlowVerticalGeometry", containingBlock(currentBox))

\* The containing blocks strictly between a box's containing block chain start and
\* the ancestor: container, its containing block, ... up to, not including, the
\* ancestor.  Empty when the chain does not reach the ancestor.
RECURSIVE chainReaches(_, _)
chainReaches(container, ancestor) ==
    IF container = NoBox THEN FALSE
    ELSE container = ancestor \/ chainReaches(containingBlock(container), ancestor)

intermediates(layoutBox, ancestor) ==
    {c \in Boxes : /\ c # ancestor
                   /\ chainReaches(containingBlock(layoutBox), c)
                   /\ chainReaches(c, ancestor)}

RECURSIVE sumOfTopLefts(_)
sumOfTopLefts(S) ==
    IF S = {} THEN <<0, 0>>
    ELSE LET c == CHOOSE x \in S : TRUE
         IN  moveBy(topLeft(displayBox[c]), sumOfTopLefts(S \ {c}))

\* C6: when the containing block chain of the box reaches the ancestor,
\* mapTopLeftToAncestor and mapBoxToAncestor yield the box's own top-left plus the
\* top-lefts of the containing blocks from its own up to, not including, the
\* ancestor.
C6_MapsThroughIntermediates ==
    (/\ mapped.operation \in {"mapBoxToAncestor", "mapTopLeftToAncestor"}
     /\ chainReaches(containingBlock(mapped.box), mapped.ancestor))
    => mapped.result = moveBy(topLeft(displayBox[mapped.box]),
                              sumOfTopLefts(intermediates(mapped.box, mapped.ancestor)))

\* C6 witness: a box was mapped to an ancestor two containing blocks away.
C6_Witness ==
    /\ mapped.operation = "mapBoxToAncestor"
    /\ chainReaches(containingBlock(mapped.box), mapped.ancestor)
    /\ Cardinality(intermediates(mapped.box, mapped.ancestor)) = 2

\* C7: when the containing block chain ends without reaching the ancestor,
\* mapCoordinateToAncestor (and mapTopLeftToAncestor through it) returns the input
\* position, mapBoxToAncestor returns a copy of the box's Display::Box as it is,
\* and no Display::Box of the store changes.
C7_UnreachedAncestorUnmapped ==
    /\ []((/\ mapped.operation # "none"
           /\ ~chainReaches(IF mapped.operation = "mapCoordinateToAncestor"
                            THEN mapped.box ELSE containingBlock(mapped.box),
                            mapped.ancestor))
          => /\ mapped.result = mapped.position
             /\ mapped.operation = "mapBoxToAncestor"
                => mapped.resultBox = displayBox[mapped.box])
    /\ [][mapped' # mapped => displayBox' = displayBox]_vars

\* C7 witness: mapCoordinateToAncestor walked over a containing block and ran off
\* the top of the tree.
C7_Witness ==
    /\ mapped.operation = "mapCoordinateToAncestor"
    /\ mapped.box # 0
    /\ ~chainReaches(mapped.box, mapped.ancestor)

\* C8: in a pass in which the formatting context runs placeInFlowPositionedChildren
\* at most once on each container, a box has been moved exactly once when it is an
\* in-flow positioned child of a container the function ran on that is this
\* context's root or establishes no formatting context, and has not been moved at
\* all otherwise.
C8_PlacesDirectPositionedChildrenOnce ==
    \A b \in Boxes :
        LET moves == b # 0 /\ tree.parent[b] \in placed /\ isInFlowPositioned(b)
                     /\ ~(establishesFormattingContext(tree.parent[b]) /\ tree.parent[b] # root)
            times == IF moves THEN 1 ELSE 0
        IN  /\ offsetsApplied[b] = times
            /\ displayBox[b].left = times * (IF style[b].left = Auto THEN 0 ELSE style[b].left)
            /\ displayBox[b].top = times * (IF style[b].top = Auto THEN 0 ELSE style[b].top)

\* C8 witness: the function has run on a container with an in-flow positioned
\* child that it moved, and on a nested formatting context root with an in-flow
\* positioned child that it left alone.
C8_Witness ==
    \E b \in Boxes, c \in Boxes :
        /\ b # 0 /\ c # 0
        /\ isInFlowPositioned(b) /\ isInFlowPositioned(c)
        /\ tree.parent[b] \in placed /\ tree.parent[c] \in placed
        /\ offsetsApplied[b] = 1
        /\ offsetsApplied[c] = 0

====
